---- MODULE Spec2Model ----
(***************************************************************************)
(* Model of datapunt_api/serializers.py: the HAL-JSON response shaping     *)
(* hooks (get_links, DataSetSerializerMixin, LinksField,                   *)
(* RelatedSummaryField, DisplayField, MultipleGeometryField).              *)
(*                                                                         *)
(* Python strings that the code builds (URLs, route names, formatted       *)
(* numbers) are sequences of one-character strings; dictionary keys and    *)
(* opaque attribute values are TLA+ strings.  Python objects live in       *)
(* `heap` and are referred to by their index, so that aliasing between a   *)
(* mapping and the value a hook returns is visible.                        *)
(***************************************************************************)
EXTENDS Integers, Sequences, FiniteSets, TLC

VARIABLES heap, displayField, last, prev

vars == <<heap, displayField, last, prev>>

(***************************************************************************)
(* Bounds                                                                  *)
(***************************************************************************)
\* rendered mappings alive at a time
MaxRendered == 2
\* the same, where a caller keeps outcomes
MaxRenderedKept == 1
\* the largest count a related manager reports
MaxCount == 1

(***************************************************************************)
(* Python values                                                           *)
(***************************************************************************)
None == [t |-> "none"]
PyStr(s) == [t |-> "str", v |-> s]
PyDict(m) == [t |-> "dict", v |-> m]
PyRef(r) == [t |-> "ref", ref |-> r]

\* m[k] = v on a dict: the key is added, or its value replaced
SetItem(m, k, v) == [x \in DOMAIN m \cup {k} |-> IF x = k THEN v ELSE m[x]]

(***************************************************************************)
(* str methods                                                             *)
(***************************************************************************)
UpperCase == <<"A", "B", "C", "D", "E", "F", "G", "H", "I", "J", "K", "L", "M",
               "N", "O", "P", "Q", "R", "S", "T", "U", "V", "W", "X", "Y", "Z">>
LowerCase == <<"a", "b", "c", "d", "e", "f", "g", "h", "i", "j", "k", "l", "m",
               "n", "o", "p", "q", "r", "s", "t", "u", "v", "w", "x", "y", "z">>

LowerChar(c) ==
    IF \E i \in 1..Len(UpperCase) : UpperCase[i] = c
    THEN LowerCase[CHOOSE i \in 1..Len(UpperCase) : UpperCase[i] = c]
    ELSE c

\* str.lower()
Lower(s) == [i \in 1..Len(s) |-> LowerChar(s[i])]

Digit == <<"0", "1", "2", "3", "4", "5", "6", "7", "8", "9">>

RECURSIVE FormatInt(_)
\* str(n) / "{}".format(n) of a non-negative int
FormatInt(n) ==
    IF n < 10 THEN <<Digit[n + 1]>>
    ELSE FormatInt(n \div 10) \o <<Digit[(n % 10) + 1]>>

EndsWith(s, suffix) ==
    /\ Len(suffix) <= Len(s)
    /\ SubSeq(s, Len(s) - Len(suffix) + 1, Len(s)) = suffix

(***************************************************************************)
(* Outcome of a call: a returned value or a raised exception, with the     *)
(* collaborator calls (reverse / get_url / json.loads) it made and what    *)
(* the last of them answered.                                              *)
(***************************************************************************)
Return(value, calls, collab) ==
    [status |-> "ok", result |-> value, calls |-> calls, collab |-> collab]
Raise(exc, calls, collab) ==
    [status |-> exc, result |-> None, calls |-> calls, collab |-> collab]

(***************************************************************************)
(* rest_framework.reverse.reverse and the URL configuration it consults    *)
(***************************************************************************)
Host == <<"h", ":">>
ListSuffix == <<"-", "l", "i", "s", "t">>
FooList == <<"f", "o", "o", "-", "l", "i", "s", "t">>
FooDetail == <<"f", "o", "o", "-", "d", "e", "t", "a", "i", "l">>
BarList == <<"b", "a", "r", "-", "l", "i", "s", "t">>

Request == [t |-> "request", host |-> Host]
Requests == {None, Request}

\* the routes the project registered: "foo-list" -> /foo/, "foo-detail" -> /foo/<pk>/
Routes == {[name |-> FooList, path |-> <<"/", "f", "o", "o", "/">>, takes_pk |-> FALSE],
           [name |-> FooDetail, path |-> <<"/", "f", "o", "o", "/">>, takes_pk |-> TRUE]}

ViewNames == {FooList, FooDetail, BarList}

Kwargs(pk) == [t |-> "kwargs", pk |-> pk]

\* reverse(view_name, kwargs=kwargs, request=request): the URL of the route,
\* absolute when a request is given; NoReverseMatch when no route matches
Reverse(view_name, kwargs, request) ==
    LET match == {r \in Routes : /\ r.name = view_name
                                 /\ r.takes_pk = (kwargs.t = "kwargs")}
    IN  IF match = {}
        THEN [ok |-> FALSE, exc |-> "NoReverseMatch"]
        ELSE LET r == CHOOSE r \in match : TRUE
                 path == IF r.takes_pk
                         THEN r.path \o FormatInt(kwargs.pk) \o <<"/">>
                         ELSE r.path
             IN  [ok |-> TRUE,
                  url |-> IF request.t = "request" THEN request.host \o path ELSE path]

(***************************************************************************)
(* get_links                                                               *)
(***************************************************************************)
\* get_links with a failed reversal answered by an empty href
get_links_swallow(view_name, kwargs, request) ==
    LET r == Reverse(view_name, kwargs, request)
    IN  IF r.ok
        THEN Return(PyDict([self |-> [href |-> r.url]]), 1, "ok")
        ELSE Return(PyDict([self |-> [href |-> <<>>]]), 1, r.exc)

\* get_links with a second key beside href
get_links_extra(view_name, kwargs, request) ==
    LET r == Reverse(view_name, kwargs, request)
    IN  IF r.ok
        THEN Return(PyDict([self |-> [href |-> r.url, count |-> 0]]), 1, "ok")
        ELSE Raise(r.exc, 1, r.exc)

get_links(view_name, kwargs, request) ==
    LET r == Reverse(view_name, kwargs, request)
    IN  IF r.ok
        THEN Return(PyDict([self |-> [href |-> r.url]]), 1, "ok")
        ELSE Raise(r.exc, 1, r.exc)

(***************************************************************************)
(* Records (model instances).  `str` is what the model's __str__ returns.  *)
(***************************************************************************)
Token(k, s, n) == [k |-> k, s |-> s, n |-> n]
LBrace == Token("{", "", 0)
RBrace == Token("}", "", 0)
LBracket == Token("[", "", 0)
RBracket == Token("]", "", 0)
Colon == Token(":", "", 0)
Comma == Token(",", "", 0)
Str(s) == Token("str", s, 0)
\* a number literal, in tenths: Num(49) is the literal 4.9
Num(n) == Token("num", "", n)

\* {"type": "Point", "coordinates": [4.9, 52.3]}
PointText ==
    <<LBrace, Str("type"), Colon, Str("Point"), Comma,
      Str("coordinates"), Colon, LBracket, Num(49), Comma, Num(523), RBracket,
      RBrace>>
\* {"type": "Point", "coordinates": []}
EmptyPointText ==
    <<LBrace, Str("type"), Colon, Str("Point"), Comma,
      Str("coordinates"), Colon, LBracket, RBracket, RBrace>>
\* {"type": "MultiPolygon", "coordinates": [[[[0.0, 0.0], [1.0, 0.0], [0.0, 0.0]]]]}
MultiPolygonText ==
    <<LBrace, Str("type"), Colon, Str("MultiPolygon"), Comma,
      Str("coordinates"), Colon,
      LBracket, LBracket, LBracket,
          LBracket, Num(0), Comma, Num(0), RBracket, Comma,
          LBracket, Num(10), Comma, Num(0), RBracket, Comma,
          LBracket, Num(0), Comma, Num(0), RBracket,
      RBracket, RBracket, RBracket,
      RBrace>>
\* {"type": "MultiPolygon", "coordinates": []}
EmptyMultiPolygonText ==
    <<LBrace, Str("type"), Colon, Str("MultiPolygon"), Comma,
      Str("coordinates"), Colon, LBracket, RBracket, RBrace>>
\* a text cut short: {"type": "Point", "coordinates": [4.9,
TruncatedText ==
    <<LBrace, Str("type"), Colon, Str("Point"), Comma,
      Str("coordinates"), Colon, LBracket, Num(49), Comma>>

\* a GEOS geometry: `len` is what __len__ returns (the truth value of the
\* object), `geojson` the text of its geojson property
Geometry(type, len, geojson) ==
    [t |-> "geom", type |-> type, len |-> len, geojson |-> geojson]

Point == Geometry("Point", 2, PointText)
EmptyPoint == Geometry("Point", 0, EmptyPointText)
MultiPolygon == Geometry("MultiPolygon", 1, MultiPolygonText)
EmptyMultiPolygon == Geometry("MultiPolygon", 0, EmptyMultiPolygonText)
BrokenPoint == Geometry("Point", 2, TruncatedText)

Geometries == {None, Point, EmptyPoint, MultiPolygon, EmptyMultiPolygon, BrokenPoint}

\* "Widget #7"
WidgetStr == <<"W", "i", "d", "g", "e", "t", " ", "#", "7">>
\* "Gadget #42"
GadgetStr == <<"G", "a", "d", "g", "e", "t", " ", "#", "4", "2">>

Widget == [pk |-> 7, naam |-> <<"W", "i", "d", "g", "e", "t">>, str |-> WidgetStr, geometrie |-> Point]
Gadget == [pk |-> 42, naam |-> <<"G", "a", "d", "g", "e", "t">>, str |-> GadgetStr, geometrie |-> None,
           dataset |-> "old"]

Records == <<Widget, Gadget>>
RecordRefs == 1..Len(Records)

\* bool(value), as `if value:` takes it
Truthy(value) ==
    CASE value.t = "none" -> FALSE
      [] value.t = "geom" -> value.len # 0
      [] OTHER -> TRUE

(***************************************************************************)
(* json.loads, on a tokenised text.  A parse answers [ok, val, next]: the  *)
(* value read and the position after it.                                   *)
(***************************************************************************)
JStr(s) == [t |-> "str", v |-> s]
JNum(n) == [t |-> "num", v |-> n]
JList(xs) == [t |-> "list", v |-> xs]
JDict(m) == [t |-> "dict", v |-> m]

EmptyDict == [k \in {} |-> None]

ParseFail == [ok |-> FALSE, val |-> None, next |-> 0]
Parsed(val, next) == [ok |-> TRUE, val |-> val, next |-> next]

Kind(toks, i) == IF i <= Len(toks) THEN toks[i].k ELSE "eof"

RECURSIVE ParseValue(_, _), ParseElements(_, _, _), ParseMembers(_, _, _)

\* one JSON value starting at position i
ParseValue(toks, i) ==
    CASE Kind(toks, i) = "str" -> Parsed(JStr(toks[i].s), i + 1)
      [] Kind(toks, i) = "num" -> Parsed(JNum(toks[i].n), i + 1)
      [] Kind(toks, i) = "[" ->
            IF Kind(toks, i + 1) = "]"
            THEN Parsed(JList(<<>>), i + 2)
            ELSE ParseElements(toks, i + 1, <<>>)
      [] Kind(toks, i) = "{" ->
            IF Kind(toks, i + 1) = "}"
            THEN Parsed(JDict(EmptyDict), i + 2)
            ELSE ParseMembers(toks, i + 1, EmptyDict)
      [] OTHER -> ParseFail

\* value ("," value)* "]", the values read so far being acc
ParseElements(toks, i, acc) ==
    LET v == ParseValue(toks, i)
    IN  IF ~v.ok THEN ParseFail
        ELSE CASE Kind(toks, v.next) = "," ->
                    ParseElements(toks, v.next + 1, Append(acc, v.val))
               [] Kind(toks, v.next) = "]" ->
                    Parsed(JList(Append(acc, v.val)), v.next + 1)
               [] OTHER -> ParseFail

\* string ":" value ("," string ":" value)* "}"; a repeated key keeps its
\* last value
ParseMembers(toks, i, acc) ==
    IF Kind(toks, i) # "str" \/ Kind(toks, i + 1) # ":" THEN ParseFail
    ELSE LET v == ParseValue(toks, i + 2)
         IN  IF ~v.ok THEN ParseFail
             ELSE CASE Kind(toks, v.next) = "," ->
                         ParseMembers(toks, v.next + 1, SetItem(acc, toks[i].s, v.val))
                    [] Kind(toks, v.next) = "}" ->
                         Parsed(JDict(SetItem(acc, toks[i].s, v.val)), v.next + 1)
                    [] OTHER -> ParseFail

\* json.loads(text): the whole text is one value, else JSONDecodeError
json_loads(text) ==
    LET v == ParseValue(text, 1)
    IN  IF v.ok /\ v.next = Len(text) + 1
        THEN [ok |-> TRUE, val |-> v.val]
        ELSE [ok |-> FALSE, exc |-> "JSONDecodeError"]

(***************************************************************************)
(* Serializer contexts: the mapping self.context                           *)
(***************************************************************************)
WithRequest == [request |-> Request]
NoRequest == [k \in {} |-> None]
Contexts == {WithRequest, NoRequest}

\* self.context.get('request')
ContextGet(context) ==
    IF "request" \in DOMAIN context THEN context["request"] ELSE None

(***************************************************************************)
(* LinksField                                                              *)
(***************************************************************************)
\* HyperlinkedIdentityField.get_url(obj, view_name, request, format): the
\* reversal of view_name for the object's primary key
get_url(obj, view_name, request) == Reverse(view_name, Kwargs(obj.pk), request)

LinksField_to_representation(view_name, context, value) ==
    LET request == ContextGet(context)
        r == get_url(value, view_name, request)
    IN  IF r.ok
        THEN Return(PyDict([self |-> [href |-> r.url]]), 1, "ok")
        ELSE Raise(r.exc, 1, r.exc)

(***************************************************************************)
(* RelatedSummaryField                                                     *)
(***************************************************************************)
Foo == <<"F", "o", "o">>
Bar == <<"B", "a", "r">>
ModelNames == {Foo, Bar}

\* "parent_id"
ParentId == <<"p", "a", "r", "e", "n", "t", "_", "i", "d">>
\* "kind"
KindKey == <<"k", "i", "n", "d">>

\* the keys of value.core_filters, in the mapping's order
CoreFilters == {<<>>, <<ParentId>>, <<KindKey, ParentId>>}

\* a related manager: value.count(), value.model.__name__, value.instance,
\* value.core_filters
Manager(count, model_name, instance, core_filters) ==
    [count |-> count, model_name |-> model_name, instance |-> instance,
     core_filters |-> core_filters]

\* RelatedSummaryField.to_representation with a validated filter key
RelatedSummaryField_to_representation_validated(context, value, instance) ==
    LET mapping == Lower(value.model_name) \o ListSuffix
    IN  IF "request" \notin DOMAIN context
        THEN Raise("KeyError", 0, "none")
        ELSE LET r == Reverse(mapping, None, context["request"])
             IN  IF ~r.ok THEN Raise(r.exc, 1, r.exc)
                 ELSE IF Len(value.core_filters) # 1
                      THEN Raise("MalformedFilterError", 1, "ok")
                      ELSE Return(PyDict([count |-> value.count,
                                          href |-> r.url \o <<"?">> \o value.core_filters[1]
                                                   \o <<"=">> \o FormatInt(instance.pk)]),
                                  1, "ok")

\* RelatedSummaryField.to_representation with the format arguments swapped
RelatedSummaryField_to_representation_swapped(context, value, instance) ==
    LET mapping == Lower(value.model_name) \o ListSuffix
    IN  IF "request" \notin DOMAIN context
        THEN Raise("KeyError", 0, "none")
        ELSE LET r == Reverse(mapping, None, context["request"])
             IN  IF ~r.ok THEN Raise(r.exc, 1, r.exc)
                 ELSE IF Len(value.core_filters) = 0
                      THEN Raise("IndexError", 1, "ok")
                      ELSE Return(PyDict([count |-> value.count,
                                          href |-> r.url \o <<"?">> \o FormatInt(instance.pk)
                                                   \o <<"=">> \o value.core_filters[1]]),
                                  1, "ok")

RelatedSummaryField_to_representation(context, value, instance) ==
    LET count == value.count
        model_name == value.model_name
        mapping == Lower(model_name) \o ListSuffix
    IN  IF "request" \notin DOMAIN context
        THEN Raise("KeyError", 0, "none")
        ELSE LET r == Reverse(mapping, None, context["request"])
             IN  IF ~r.ok THEN Raise(r.exc, 1, r.exc)
                 ELSE LET url == r.url
                          parent_pk == instance.pk
                      IN  IF Len(value.core_filters) = 0
                          THEN Raise("IndexError", 1, "ok")
                          ELSE LET filter_name == value.core_filters[1]
                               IN  Return(PyDict([count |-> count,
                                                  href |-> url \o <<"?">> \o filter_name
                                                           \o <<"=">> \o FormatInt(parent_pk)]),
                                          1, "ok")

(***************************************************************************)
(* DisplayField                                                            *)
(***************************************************************************)
\* the keyword arguments a caller may construct the field with
KwargsSets == {[k \in {} |-> None],
               [read_only |-> FALSE],
               [source |-> "naam"],
               [source |-> "naam", read_only |-> FALSE]}

\* serializers.Field.__new__ / __init__(read_only=False, source=None): the
\* attributes the base class stores; _kwargs keeps what the caller wrote
Field__init__(given, kwargs) ==
    [t |-> "field",
     _kwargs |-> given,
     read_only |-> IF "read_only" \in DOMAIN kwargs THEN kwargs["read_only"] ELSE FALSE,
     source |-> IF "source" \in DOMAIN kwargs THEN kwargs["source"] ELSE "None"]

\* DisplayField.__init__ with kwargs.setdefault in place of the assignments
DisplayField__init___setdefault(kwargs) ==
    Field__init__(kwargs,
        [k \in DOMAIN kwargs \cup {"source", "read_only"} |->
            IF k \in DOMAIN kwargs THEN kwargs[k]
            ELSE IF k = "source" THEN "*" ELSE TRUE])

DisplayField__init__(kwargs) ==
    Field__init__(kwargs, SetItem(SetItem(kwargs, "source", "*"), "read_only", TRUE))

\* Field.get_attribute with the field's source: '*' passes the whole
\* instance, a name passes that attribute
get_attribute(field, instance) ==
    IF field.source = "*" THEN [t |-> "model", v |-> instance]
    ELSE [t |-> "attr", v |-> instance[field.source]]

\* str(value): the model's __str__ for an instance
ToStr(value) == IF value.t = "model" THEN value.v.str ELSE value.v

DisplayField_to_representation(value) == Return(PyStr(ToStr(value)), 0, "none")

(***************************************************************************)
(* MultipleGeometryField                                                   *)
(***************************************************************************)
MultipleGeometryField_get_attribute(obj) == obj.geometrie

\* MultipleGeometryField.to_representation starting from res = None
MultipleGeometryField_to_representation_none(value) ==
    IF Truthy(value)
    THEN LET d == json_loads(value.geojson)
         IN  IF d.ok THEN Return(d.val, 1, "ok") ELSE Raise(d.exc, 1, d.exc)
    ELSE Return(None, 0, "none")

\* MultipleGeometryField.to_representation testing `value is not None`
MultipleGeometryField_to_representation_isnone(value) ==
    IF value # None
    THEN LET d == json_loads(value.geojson)
         IN  IF d.ok THEN Return(d.val, 1, "ok") ELSE Raise(d.exc, 1, d.exc)
    ELSE Return(PyStr(<<>>), 0, "none")

MultipleGeometryField_to_representation(value) ==
    IF Truthy(value)
    THEN LET d == json_loads(value.geojson)
         IN  IF d.ok THEN Return(d.val, 1, "ok") ELSE Raise(d.exc, 1, d.exc)
    ELSE Return(PyStr(<<>>), 0, "none")

(***************************************************************************)
(* DataSetSerializerMixin                                                  *)
(***************************************************************************)
DataSets == {"bag", "brk"}

\* what the serializer below the mixin renders of a record: its declared
\* fields, in a mapping
Render(rec) ==
    [k \in {"id", "naam"} \cup ({"dataset"} \cap DOMAIN rec) |->
        IF k = "id" THEN rec.pk ELSE rec[k]]

\* super().to_representation(obj): a mapping built for this call (src = 0),
\* or the mapping src the serializer below built for the record before
SuperToRepresentation(h, obj, src) ==
    IF src = 0
    THEN [heap |-> Append(h, Render(h[obj])), result |-> Len(h) + 1]
    ELSE [heap |-> h, result |-> src]

\* the mixin returning a tagged copy of the mapping
DataSetSerializerMixin_to_representation_copy(h, obj, result, dataset) ==
    [heap |-> Append(h, SetItem(h[result], "dataset", dataset)),
     ret |-> Len(h) + 1]

\* the mixin tagging with result.setdefault('dataset', ...)
DataSetSerializerMixin_to_representation_setdefault(h, obj, result, dataset) ==
    [heap |-> [h EXCEPT ![result] =
                  IF "dataset" \in DOMAIN @ THEN @ ELSE SetItem(@, "dataset", dataset)],
     ret |-> result]

\* the mixin tagging the record instead of the mapping
DataSetSerializerMixin_to_representation_setattr(h, obj, result, dataset) ==
    [heap |-> [h EXCEPT ![obj] = SetItem(@, "dataset", dataset)],
     ret |-> result]

\* the body of DataSetSerializerMixin.to_representation after the super
\* call: h is the heap and result the mapping that call left
DataSetSerializerMixin_to_representation(h, obj, result, dataset) ==
    [heap |-> [h EXCEPT ![result] = SetItem(@, "dataset", dataset)],
     ret |-> result]

(***************************************************************************)
(* The state: the heap of records and rendered mappings, the DisplayField  *)
(* instance of the serializer, the last invocation made and an earlier     *)
(* invocation a caller kept.                                               *)
(***************************************************************************)
NoInvocation ==
    [rule |-> "none", args |-> <<>>, status |-> "none", result |-> None,
     calls |-> 0, collab |-> "none", out |-> None, input |-> None, inputRef |-> 0]

Invocation(rule, args, o) ==
    [rule |-> rule, args |-> args, status |-> o.status, result |-> o.result,
     calls |-> o.calls, collab |-> o.collab, out |-> o.result,
     input |-> None, inputRef |-> 0]

RenderedRefs == (Len(Records) + 1)..Len(heap)

Init ==
    /\ heap = Records
    /\ displayField = None
    /\ last = NoInvocation
    /\ prev = NoInvocation

AllKwargs == {None} \cup {Kwargs(heap[r].pk) : r \in RecordRefs}

\* a caller calls get_links(view_name, kwargs, request)
GetLinks(viewNames, kwargsSet, requests) ==
    \E view_name \in viewNames, kwargs \in kwargsSet, request \in requests :
        /\ last' = Invocation("get_links", <<view_name, kwargs, request>>,
                              get_links(view_name, kwargs, request))
        /\ UNCHANGED <<heap, displayField, prev>>

\* a serializer renders its _links field for record obj
Links(viewNames, contexts) ==
    \E view_name \in viewNames, context \in contexts, obj \in RecordRefs :
        /\ last' = Invocation("LinksField", <<view_name, context, obj>>,
                              LinksField_to_representation(view_name, context, heap[obj]))
        /\ UNCHANGED <<heap, displayField, prev>>

\* a serializer with the mixin and dataset name `dataset` renders record obj
DataSet(maxRendered) ==
    \E dataset \in DataSets, obj \in RecordRefs, src \in {0} \cup RenderedRefs :
        /\ src = 0 => Len(heap) < Len(Records) + maxRendered
        /\ src # 0 => heap[src]["id"] = heap[obj].pk
        /\ LET super == SuperToRepresentation(heap, obj, src)
               r == DataSetSerializerMixin_to_representation(
                        super.heap, obj, super.result, dataset)
           IN  /\ heap' = r.heap
               /\ last' = [rule |-> "DataSetSerializerMixin",
                           args |-> <<dataset, obj>>,
                           status |-> "ok", result |-> PyRef(r.ret),
                           calls |-> 0, collab |-> "none",
                           out |-> PyDict(r.heap[r.ret]),
                           input |-> PyDict(super.heap[super.result]),
                           inputRef |-> super.result]
        /\ UNCHANGED <<displayField, prev>>

\* a serializer renders a related manager of record obj
RelatedSummary(counts, modelNames, coreFilters, contexts) ==
    \E count \in counts, model_name \in modelNames, core_filters \in coreFilters,
       context \in contexts, obj \in RecordRefs :
        LET value == Manager(count, model_name, obj, core_filters)
        IN  /\ last' = Invocation("RelatedSummaryField", <<context, value>>,
                           RelatedSummaryField_to_representation(context, value, heap[obj]))
            /\ UNCHANGED <<heap, displayField, prev>>

\* a serializer class declares DisplayField(**kwargs)
ConstructDisplayField(kwargsSets) ==
    \E kwargs \in kwargsSets :
        /\ displayField' = DisplayField__init__(kwargs)
        /\ last' = Invocation("DisplayField.__init__", <<kwargs>>,
                              Return(None, 0, "none"))
        /\ UNCHANGED <<heap, prev>>

\* the serializer renders its display field for record obj
Display ==
    \E obj \in RecordRefs :
        /\ displayField # None
        /\ last' = Invocation("DisplayField", <<obj>>,
                       DisplayField_to_representation(
                           get_attribute(displayField, heap[obj])))
        /\ UNCHANGED <<heap, displayField, prev>>

\* the serializer renders the geometry field for record obj
GeometryOfRecord ==
    \E obj \in RecordRefs :
        /\ last' = Invocation("MultipleGeometryField", <<heap[obj].geometrie>>,
                       MultipleGeometryField_to_representation(
                           MultipleGeometryField_get_attribute(heap[obj])))
        /\ UNCHANGED <<heap, displayField, prev>>

\* MultipleGeometryField.to_representation(value) on a geometry value
GeometryValue(geometries) ==
    \E value \in geometries :
        /\ last' = Invocation("MultipleGeometryField", <<value>>,
                       MultipleGeometryField_to_representation(value))
        /\ UNCHANGED <<heap, displayField, prev>>

\* the caller keeps the outcome of the invocation just made
Remember ==
    /\ last.rule # "none"
    /\ prev' = last
    /\ UNCHANGED <<heap, displayField, last>>

Counts == 0..MaxCount

Next ==
    \/ GetLinks(ViewNames, AllKwargs, Requests)
    \/ Links(ViewNames, Contexts)
    \/ DataSet(MaxRendered)
    \/ RelatedSummary(Counts, ModelNames, CoreFilters, Contexts)
    \/ ConstructDisplayField(KwargsSets)
    \/ Display
    \/ GeometryOfRecord
    \/ GeometryValue(Geometries)

Spec == Init /\ [][Next]_vars

\* the same operations on fewer inputs, with a caller that keeps outcomes
NextPure ==
    \/ GetLinks({FooList, BarList}, {None}, Requests)
    \/ Links({FooDetail}, Contexts)
    \/ DataSet(MaxRenderedKept)
    \/ RelatedSummary({0}, {Foo}, CoreFilters, {WithRequest})
    \/ ConstructDisplayField({[source |-> "naam", read_only |-> FALSE]})
    \/ Display
    \/ GeometryOfRecord
    \/ GeometryValue({EmptyPoint, MultiPolygon})
    \/ Remember

SpecPure == Init /\ [][NextPure]_vars

(***************************************************************************)
(* Properties                                                              *)
(***************************************************************************)
IsRelatedSummary == last.rule = "RelatedSummaryField"
IsDataSet == last.rule = "DataSetSerializerMixin"
IsGeometry == last.rule = "MultipleGeometryField"

\* the list URL Rule C resolves for the invocation in `last`
ListUrl ==
    Reverse(Lower(last.args[2].model_name) \o ListSuffix, None, last.args[1]["request"])

\* the invocation in `last` is a Rule C invocation that got past URL resolution
Resolved ==
    /\ IsRelatedSummary
    /\ "request" \in DOMAIN last.args[1]
    /\ ListUrl.ok

\* "?parent_id=42"
ParentId42 == <<"?", "p", "a", "r", "e", "n", "t", "_", "i", "d", "=", "4", "2">>

\* C1 (as claimed): Rule C on a filter mapping with zero keys or with more
\* than one key fails with MalformedFilterError.
C1_Original ==
    (Resolved /\ Len(last.args[2].core_filters) # 1)
        => last.status = "MalformedFilterError"

\* C1 (amended): Rule C never fails with MalformedFilterError.  Once the URL
\* is resolved, a filter mapping with zero keys makes it fail with IndexError
\* (index out of range) and return nothing; a mapping with more than one key
\* makes it succeed, with the href built from the first key of the mapping.
C1_Amended ==
    IsRelatedSummary =>
        /\ last.status # "MalformedFilterError"
        /\ (Resolved /\ Len(last.args[2].core_filters) = 0) =>
                /\ last.status = "IndexError"
                /\ last.result = None
        /\ (Resolved /\ Len(last.args[2].core_filters) > 1) =>
                /\ last.status = "ok"
                /\ last.result.v["href"] =
                       ListUrl.url \o <<"?">> \o last.args[2].core_filters[1] \o <<"=">>
                       \o FormatInt(Records[last.args[2].instance].pk)

C1_Witness ==
    /\ Resolved
    /\ Len(last.args[2].core_filters) = 0
    /\ last.status = "IndexError"

\* C2 (as claimed): Rule B leaves the mapping produced by the underlying
\* serializer unchanged and returns a distinct mapping.
C2_Original ==
    IsDataSet =>
        /\ last.result.ref # last.inputRef
        /\ heap[last.inputRef] = last.input.v

\* C2 (amended): Rule B writes the key "dataset" into the mapping produced by
\* the underlying serializer and returns that same mapping, so a holder of
\* the input mapping sees the key; the Record is left unchanged.
C2_Amended ==
    IsDataSet =>
        /\ last.result.ref = last.inputRef
        /\ "dataset" \in DOMAIN heap[last.inputRef]
        /\ heap[last.inputRef]["dataset"] = last.args[1]
        /\ heap[last.args[2]] = Records[last.args[2]]

C2_Witness ==
    /\ IsDataSet
    /\ "dataset" \notin DOMAIN last.input.v
    /\ heap[last.inputRef]["dataset"] = last.args[1]

\* C3: the output of Rule B has the keys of the input and "dataset", maps
\* "dataset" to the dataset name and every other key to the input's value;
\* applied to a mapping already tagged with another name it keeps the key set
\* and holds the new name only.
C3_TagMerge ==
    IsDataSet =>
        LET in == last.input.v
            out == last.out.v
        IN  /\ DOMAIN out = DOMAIN in \cup {"dataset"}
            /\ out["dataset"] = last.args[1]
            /\ \A k \in DOMAIN in \ {"dataset"} : out[k] = in[k]
            /\ "dataset" \in DOMAIN in => DOMAIN out = DOMAIN in

C3_Witness ==
    /\ IsDataSet
    /\ "dataset" \in DOMAIN last.input.v
    /\ last.input.v["dataset"] \in DataSets \ {last.args[1]}
    /\ last.out.v["dataset"] = last.args[1]

\* C4: with exactly one filter key k, Rule C (its list URL resolved) returns
\* a mapping of exactly "count" and "href", count being the manager's count
\* (0 included) and href the list URL, "?", k, "=", the parent's primary key.
C4_Summary ==
    (Resolved /\ Len(last.args[2].core_filters) = 1) =>
        LET value == last.args[2]
            k == value.core_filters[1]
            p == Records[value.instance].pk
        IN  /\ last.status = "ok"
            /\ last.result.t = "dict"
            /\ DOMAIN last.result.v = {"count", "href"}
            /\ last.result.v["count"] = value.count
            /\ last.result.v["href"] = ListUrl.url \o <<"?">> \o k \o <<"=">> \o FormatInt(p)
            /\ (k = ParentId /\ p = 42) => EndsWith(last.result.v["href"], ParentId42)

C4_Witness ==
    /\ Resolved
    /\ last.args[2].core_filters = <<ParentId>>
    /\ last.args[2].count = 0
    /\ last.status = "ok"
    /\ EndsWith(last.result.v["href"], ParentId42)

\* what the collaborator of the invocation in `last` answers
Collaborator ==
    CASE last.rule = "get_links" ->
            Reverse(last.args[1], last.args[2], last.args[3])
      [] last.rule = "LinksField" ->
            Reverse(last.args[1], Kwargs(Records[last.args[3]].pk),
                    ContextGet(last.args[2]))
      [] last.rule = "RelatedSummaryField" ->
            IF "request" \in DOMAIN last.args[1] THEN ListUrl ELSE [ok |-> TRUE]
      [] last.rule = "MultipleGeometryField" ->
            IF last.args[1] = None THEN [ok |-> TRUE]
            ELSE json_loads(last.args[1].geojson)

C7_Geometry ==
    IsGeometry =>
        /\ last.args[1] = None =>
                /\ last.status = "ok"
                /\ last.result.t = "str"
                /\ last.result.v = <<>>
        /\ last.args[1] = Point =>
                /\ last.status = "ok"
                /\ last.result.t = "dict"
                /\ {"type", "coordinates"} \subseteq DOMAIN last.result.v
                /\ last.result.v["type"] = JStr("Point")
                /\ last.result.v["coordinates"] = JList(<<JNum(49), JNum(523)>>)

C7_Witness ==
    /\ IsGeometry
    /\ last.args[1] = Point
    /\ last.result.t = "dict"

\* C8: when the route resolves, get_links and LinksField return a mapping
\* with the one key "self", whose value is a mapping with the one key "href",
\* the URL that reverse returned.
C8_SelfLink ==
    (last.rule \in {"get_links", "LinksField"} /\ Collaborator.ok) =>
        /\ last.status = "ok"
        /\ last.result.t = "dict"
        /\ DOMAIN last.result.v = {"self"}
        /\ DOMAIN last.result.v["self"] = {"href"}
        /\ last.result.v["self"]["href"] = Collaborator.url

C8_Witness ==
    /\ last.rule = "get_links"
    /\ last.args[2] = Kwargs(42)
    /\ last.status = "ok"
    /\ last.result.v["self"]["href"] =
           <<"h", ":", "/", "f", "o", "o", "/", "4", "2", "/">>

\* C9: a DisplayField is read-only and takes the whole record as its source
\* whatever keyword arguments it was constructed with, and its
\* representation of a record is the record's display string.
C9_Display ==
    /\ displayField # None =>
            /\ displayField.read_only = TRUE
            /\ displayField.source = "*"
    /\ last.rule = "DisplayField" =>
            /\ last.status = "ok"
            /\ last.result = PyStr(Records[last.args[1]].str)

C9_Witness ==
    /\ last.rule = "DisplayField"
    /\ displayField._kwargs = [source |-> "naam", read_only |-> FALSE]
    /\ last.result.v = WidgetStr

\* a geometry value that `if value:` takes as false
Falsy(value) == value = None \/ value.len = 0

\* C10: Rule E returns "" exactly when the geometry is falsy (None, or of
\* length 0), without decoding; a truthy geometry is decoded, and the result
\* is the decoding of its GeoJSON text.
C10_Falsy ==
    IsGeometry =>
        LET value == last.args[1]
        IN  /\ Falsy(value) =>
                /\ last.status = "ok"
                /\ last.result.t = "str"
                /\ last.result.v = <<>>
                /\ last.calls = 0
            /\ ~Falsy(value) =>
                /\ last.calls = 1
                /\ last.result.t # "str"
                /\ IF json_loads(value.geojson).ok
                   THEN last.status = "ok" /\ last.result = json_loads(value.geojson).val
                   ELSE last.status = "JSONDecodeError"

C10_Witness ==
    /\ IsGeometry
    /\ last.args[1] = EmptyPoint
    /\ last.result.t = "str"
    /\ last.calls = 0

====
